---------------------------- MODULE Spec2Model ----------------------------
(***************************************************************************)
(* A model of jvm-find (src/src/lib.rs): JavaHome::find_home,              *)
(* find_valid_home, find_active_home (the home resolver) and include,      *)
(* native_library, find_file, find_folder (the glob-based path locator).   *)
(*                                                                         *)
(* Text is a sequence of one-character strings.  "<FF>" stands for a byte  *)
(* that is not valid UTF-8 and "<FFFD>" for U+FFFD, its lossy decoding.    *)
(* The environment of a call is the JAVA_HOME variable (env), the          *)
(* filesystem (fs: a tree of entries) and the `java` executable (proc).    *)
(***************************************************************************)
EXTENDS Integers, Sequences, FiniteSets, TLC

VARIABLES
    env,     \* JAVA_HOME: [set: BOOLEAN, val: text]
    fs,      \* the filesystem: [component path -> "dir" | "file" | "noread"]
    proc,    \* the java executable: [launch: kind of failure or "ok", stdout, stderr: text]
    home,    \* the JavaHome value the locator operations are called on (its path)
    op,      \* the operation called last ("idle" before the first call)
    arg,     \* the name argument of the last find_file / find_folder call
    result,  \* what the last call returned
    calls    \* the external calls the last call made, in order

vars == <<env, fs, proc, home, op, arg, result, calls>>

-----------------------------------------------------------------------------
(* Bounds *)

\* Lines of `java` output over stdout and stderr together.
MaxLines == 2

\* Entries of the filesystem beneath the home directory.
MaxEntries == 3

-----------------------------------------------------------------------------
(* Text *)

Slash == <<"/">>
NoText == <<>>

\* Code points of the characters the model's texts use (byte order of names).
Ascii ==
    ("\t" :> 9) @@ ("\n" :> 10) @@ ("\r" :> 13) @@ (" " :> 32) @@ ("!" :> 33) @@
    ("*" :> 42) @@ ("-" :> 45) @@ ("." :> 46) @@ ("/" :> 47) @@ ("1" :> 49) @@
    ("2" :> 50) @@ ("3" :> 51) @@ ("7" :> 55) @@ ("=" :> 61) @@ ("?" :> 63) @@
    ("[" :> 91) @@ ("]" :> 93) @@ ("a" :> 97) @@ ("b" :> 98) @@ ("c" :> 99) @@
    ("d" :> 100) @@ ("e" :> 101) @@ ("h" :> 104) @@ ("i" :> 105) @@
    ("j" :> 106) @@ ("k" :> 107) @@ ("l" :> 108) @@ ("m" :> 109) @@
    ("n" :> 110) @@ ("o" :> 111) @@ ("p" :> 112) @@ ("s" :> 115) @@
    ("t" :> 116) @@ ("u" :> 117) @@ ("v" :> 118) @@ ("w" :> 119) @@
    ("x" :> 120) @@ ("<FF>" :> 255) @@ ("<FFFD>" :> 65533)

SubText(s, i, j) == IF i > j THEN NoText ELSE SubSeq(s, i, j)

\* t occurs in s starting at index i.
OccursAt(s, t, i) ==
    /\ i >= 1
    /\ i + Len(t) - 1 <= Len(s)
    /\ \A k \in 1..Len(t) : s[i + k - 1] = t[k]

\* str::contains
Contains(s, t) == \E i \in 1..(Len(s) + 1) : OccursAt(s, t, i)

\* str::find(char): the index of the first occurrence, 0 for None.
Find(s, c) ==
    IF \E i \in 1..Len(s) : s[i] = c
    THEN CHOOSE i \in 1..Len(s) : s[i] = c /\ \A k \in 1..(i - 1) : s[k] # c
    ELSE 0

IsWhitespace(c) == c \in {" ", "\t", "\n", "\r"}

\* str::trim
Trim(s) ==
    IF \A i \in 1..Len(s) : IsWhitespace(s[i])
    THEN NoText
    ELSE LET first == CHOOSE i \in 1..Len(s) :
                          ~IsWhitespace(s[i]) /\ \A k \in 1..(i - 1) : IsWhitespace(s[k])
             last == CHOOSE i \in 1..Len(s) :
                          ~IsWhitespace(s[i]) /\ \A k \in (i + 1)..Len(s) : IsWhitespace(s[k])
         IN SubText(s, first, last)

\* str::lines: split after each "\n"; a line loses its "\n" and a "\r" before it.
RECURSIVE Lines(_)
Lines(s) ==
    IF s = NoText THEN <<>>
    ELSE LET nl == Find(s, "\n")
         IN IF nl = 0 THEN <<s>>
            ELSE LET raw == SubText(s, 1, nl - 1)
                     line == IF raw # NoText /\ raw[Len(raw)] = "\r"
                             THEN SubText(raw, 1, Len(raw) - 1)
                             ELSE raw
                 IN <<line>> \o Lines(SubText(s, nl + 1, Len(s)))

\* String::from_utf8_lossy: an invalid byte decodes to U+FFFD.
FromUtf8Lossy(bytes) == [i \in 1..Len(bytes) |-> IF bytes[i] = "<FF>" THEN "<FFFD>" ELSE bytes[i]]

\* Path::to_str: None (FALSE) when the path holds a byte that is not UTF-8.
\* (IsUtf8_lossy: a lossy conversion, which never fails.)
IsUtf8_lossy(p) == TRUE

IsUtf8(p) == \A i \in 1..Len(p) : p[i] # "<FF>"

RECURSIVE Concat(_)
Concat(ss) == IF ss = <<>> THEN NoText ELSE Head(ss) \o Concat(Tail(ss))

-----------------------------------------------------------------------------
(* The filesystem *)

\* Path::join onto an absolute path.
Join(p, name) == IF p = Slash THEN p \o name ELSE p \o Slash \o name

\* The components of an absolute path ("/p/jdk" is <<"p", "jdk">> as texts).
RECURSIVE Components(_)
Components(p) ==
    IF p = NoText THEN <<>>
    ELSE LET sl == Find(p, "/")
         IN IF sl = 0 THEN <<p>>
            ELSE IF sl = 1 THEN Components(SubText(p, 2, Len(p)))
            ELSE <<SubText(p, 1, sl - 1)>> \o Components(SubText(p, sl + 1, Len(p)))

\* The text of a component path.
RECURSIVE PathText(_)
PathText(cs) ==
    IF cs = <<>> THEN Slash
    ELSE Join(PathText(SubSeq(cs, 1, Len(cs) - 1)), cs[Len(cs)])

\* std::fs::metadata: the kind of the entry, or the kind of the io::Error.
\* A "noread" directory can be neither listed nor searched.
MetadataOf(cs) ==
    LET Parent(i) == SubSeq(cs, 1, i)
    IN IF \E i \in 0..(Len(cs) - 1) : Parent(i) \in DOMAIN fs /\ fs[Parent(i)] # "dir"
       THEN LET i == CHOOSE i \in 0..(Len(cs) - 1) :
                         /\ Parent(i) \in DOMAIN fs /\ fs[Parent(i)] # "dir"
                         /\ \A k \in 0..(i - 1) : fs[Parent(k)] = "dir"
            IN IF fs[Parent(i)] = "file" THEN "NotADirectory" ELSE "PermissionDenied"
       ELSE IF cs \in DOMAIN fs
            THEN (IF fs[cs] = "file" THEN "File" ELSE "Dir")
            ELSE "NotFound"

Metadata(p) == MetadataOf(Components(p))

MetaIsOk(m) == m \in {"File", "Dir"}

-----------------------------------------------------------------------------
(* Results *)

NoPaths == <<>>

OkPath(p)    == [tag |-> "Ok", err |-> "", kind |-> "", some |-> TRUE, path |-> p, paths |-> NoPaths]
OkPaths(ps)  == [tag |-> "Ok", err |-> "", kind |-> "", some |-> TRUE, path |-> NoText, paths |-> ps]
OkNone       == [tag |-> "Ok", err |-> "", kind |-> "", some |-> FALSE, path |-> NoText, paths |-> NoPaths]
Err(e, k, p) == [tag |-> "Err", err |-> e, kind |-> k, some |-> FALSE, path |-> p, paths |-> NoPaths]
NoResult     == [tag |-> "None", err |-> "", kind |-> "", some |-> FALSE, path |-> NoText, paths |-> NoPaths]

\* The JAVA_HOME variable: unset, or set to a value.
Unset == [set |-> FALSE, val |-> NoText]
SetTo(v) == [set |-> TRUE, val |-> v]

\* What an operation did: its return value and its external calls in order.
Outcome(r, cs) == [ret |-> r, calls |-> cs]

-----------------------------------------------------------------------------
(* The home resolver *)

JavaHomeText == <<"j", "a", "v", "a", ".", "h", "o", "m", "e">>

\* std::env::var_os(ENV_VAR).filter(|var| !var.is_empty()): Some (set) or None.
\* (JavaHomeVar_unfiltered: the same without the filter.)
JavaHomeVar_unfiltered == env

JavaHomeVar == IF env.set /\ env.val # NoText THEN env ELSE Unset

\* stdout.lines().chain(stderr.lines()) over the lossily decoded streams.
\* (OutputLines_stderr_first: the two streams chained the other way round.)
OutputLines_stderr_first ==
    Lines(FromUtf8Lossy(proc.stderr)) \o Lines(FromUtf8Lossy(proc.stdout))

OutputLines == Lines(FromUtf8Lossy(proc.stdout)) \o Lines(FromUtf8Lossy(proc.stderr))

NoLine == [some |-> FALSE, text |-> NoText]
SomeLine(t) == [some |-> TRUE, text |-> t]

\* .find(|line| line.contains("java.home")): the first such line.
JavaHomeRaw(lines) ==
    IF \E i \in 1..Len(lines) : Contains(lines[i], JavaHomeText)
    THEN SomeLine(lines[CHOOSE i \in 1..Len(lines) :
                           /\ Contains(lines[i], JavaHomeText)
                           /\ \A k \in 1..(i - 1) : ~Contains(lines[k], JavaHomeText)])
    ELSE NoLine

\* line.find('=').map(|i| line[i+1..].trim())
\* (JavaHomeValue_reject_blank: a blank value counted as no value.)
JavaHomeValue_reject_blank(line) ==
    LET eq == Find(line, "=")
    IN IF eq = 0 \/ Trim(SubText(line, eq + 1, Len(line))) = NoText
       THEN NoLine
       ELSE SomeLine(Trim(SubText(line, eq + 1, Len(line))))

JavaHomeValue(line) ==
    LET eq == Find(line, "=")
    IN IF eq = 0 THEN NoLine ELSE SomeLine(Trim(SubText(line, eq + 1, Len(line))))

\* JavaHome::find_active_home
find_active_home ==
    IF proc.launch # "ok"
    THEN Outcome(Err("JavaExecution", proc.launch, NoText), <<"spawn">>)
    ELSE LET java_home_raw == JavaHomeRaw(OutputLines)
             java_home == IF java_home_raw.some THEN JavaHomeValue(java_home_raw.text)
                          ELSE NoLine
         IN IF java_home.some
            THEN Outcome(OkPath(java_home.text), <<"spawn">>)
            ELSE Outcome(Err("NoJavaHomeProperty", "", NoText), <<"spawn">>)

\* The fallback of find_home and find_valid_home, after the calls made so far.
FallBack(made) ==
    LET active == find_active_home
    IN Outcome(active.ret, made \o active.calls)

\* JavaHome::find_home
find_home ==
    LET var == JavaHomeVar
    IN IF var.set
       THEN Outcome(OkPath(var.val), <<"var_os">>)
       ELSE FallBack(<<"var_os">>)

\* find_valid_home without the is_dir test: any existing entry is returned.
find_valid_home_any_entry ==
    LET var == JavaHomeVar
    IN IF var.set
       THEN LET meta == Metadata(var.val)
                made == <<"var_os", "metadata">>
            IN IF ~MetaIsOk(meta) /\ meta # "NotFound"
               THEN Outcome(Err("IoError", meta, NoText), made)
               ELSE IF MetaIsOk(meta)
               THEN Outcome(OkPath(var.val), made)
               ELSE FallBack(made)
       ELSE FallBack(<<"var_os">>)

\* find_valid_home as in the simplified draft: every metadata failure falls back.
find_valid_home_swallow ==
    LET var == JavaHomeVar
    IN IF var.set
       THEN LET meta == Metadata(var.val)
                made == <<"var_os", "metadata">>
            IN IF meta = "Dir"
               THEN Outcome(OkPath(var.val), made)
               ELSE FallBack(made)
       ELSE FallBack(<<"var_os">>)

\* JavaHome::find_valid_home
find_valid_home ==
    LET var == JavaHomeVar
    IN IF var.set
       THEN LET meta == Metadata(var.val)
                made == <<"var_os", "metadata">>
            IN IF ~MetaIsOk(meta) /\ meta # "NotFound"
               THEN Outcome(Err("IoError", meta, NoText), made)
               ELSE IF meta = "Dir"
               THEN Outcome(OkPath(var.val), made)
               ELSE FallBack(made)
       ELSE FallBack(<<"var_os">>)

-----------------------------------------------------------------------------
(* The search engine (the glob crate, as lib.rs uses it) *)

\* glob::Pattern::escape: each of ? * [ ] becomes a one-character class.
\* (Escape_none: the text used as a pattern unescaped.)
Escape_none(s) == s

RECURSIVE Escape(_)
Escape(s) ==
    IF s = NoText THEN NoText
    ELSE (IF Head(s) \in {"?", "*", "[", "]"} THEN <<"[", Head(s), "]">> ELSE <<Head(s)>>)
         \o Escape(Tail(s))

Tok(t, c, cs) == [t |-> t, c |-> c, cs |-> cs]

\* parse_char_specifiers: the characters a class names (x-y is a range).
RECURSIVE CharSpecifiers(_)
CharSpecifiers(s) ==
    IF s = NoText THEN {}
    ELSE IF Len(s) >= 3 /\ s[2] = "-"
    THEN {c \in DOMAIN Ascii : Ascii[c] >= Ascii[s[1]] /\ Ascii[c] <= Ascii[s[3]]}
         \cup CharSpecifiers(SubText(s, 4, Len(s)))
    ELSE {s[1]} \cup CharSpecifiers(Tail(s))

BadPattern == [ok |-> FALSE, tokens |-> <<>>, is_recursive |-> FALSE]

\* glob::Pattern::new on one path component, from index i on.
RECURSIVE PatternFrom(_, _, _, _)
PatternFrom(chars, i, tokens, rec) ==
    IF i > Len(chars) THEN [ok |-> TRUE, tokens |-> tokens, is_recursive |-> rec]
    ELSE LET c == chars[i] IN
    IF c = "?" THEN PatternFrom(chars, i + 1, Append(tokens, Tok("AnyChar", "", {})), rec)
    ELSE IF c = "*" THEN
        LET stop == IF \E k \in i..Len(chars) : chars[k] # "*"
                    THEN CHOOSE k \in i..Len(chars) :
                             chars[k] # "*" /\ \A m \in i..(k - 1) : chars[m] = "*"
                    ELSE Len(chars) + 1
            count == stop - i
        IN IF count > 2 THEN BadPattern
           ELSE IF count = 2
           THEN (IF i = 1 /\ stop = Len(chars) + 1
                 THEN PatternFrom(chars, stop,
                                  Append(tokens, Tok("AnyRecursiveSequence", "", {})), TRUE)
                 ELSE BadPattern)
           ELSE PatternFrom(chars, stop, Append(tokens, Tok("AnySequence", "", {})), rec)
    ELSE IF c = "[" THEN
        LET neg == i + 3 <= Len(chars) /\ chars[i + 1] = "!"
            from == IF neg THEN i + 3 ELSE i + 2
            closes == from <= Len(chars) /\ \E k \in from..Len(chars) : chars[k] = "]"
            close == CHOOSE k \in from..Len(chars) :
                         chars[k] = "]" /\ \A m \in from..(k - 1) : chars[m] # "]"
        IN IF (neg \/ (i + 2 <= Len(chars) /\ chars[i + 1] # "!")) /\ closes
           THEN PatternFrom(chars, close + 1,
                    Append(tokens,
                           Tok(IF neg THEN "AnyExcept" ELSE "AnyWithin", "",
                               CharSpecifiers(SubText(chars, IF neg THEN i + 2 ELSE i + 1,
                                                      close - 1)))),
                    rec)
           ELSE BadPattern
    ELSE PatternFrom(chars, i + 1, Append(tokens, Tok("Char", c, {})), rec)

PatternNew(chars) == PatternFrom(chars, 1, <<>>, FALSE)

\* Pattern::matches_with under the default MatchOptions, on one file name.
RECURSIVE MatchesFrom(_, _, _, _)
MatchesFrom(tokens, ti, name, ni) ==
    IF ti > Len(tokens) THEN ni > Len(name)
    ELSE LET tok == tokens[ti] IN
         IF tok.t \in {"AnySequence", "AnyRecursiveSequence"}
         THEN \E k \in ni..(Len(name) + 1) : MatchesFrom(tokens, ti + 1, name, k)
         ELSE /\ ni <= Len(name)
              /\ CASE tok.t = "Char" -> name[ni] = tok.c
                   [] tok.t = "AnyChar" -> TRUE
                   [] tok.t = "AnyWithin" -> name[ni] \in tok.cs
                   [] tok.t = "AnyExcept" -> name[ni] \notin tok.cs
              /\ MatchesFrom(tokens, ti + 1, name, ni + 1)

Matches(pattern, name) == MatchesFrom(pattern.tokens, 1, name, 1)

\* fill_todo's pattern_as_str: the text of a pattern of plain characters only.
PatternIsStr(pattern) == \A i \in 1..Len(pattern.tokens) : pattern.tokens[i].t = "Char"
PatternStr(pattern) == [i \in 1..Len(pattern.tokens) |-> pattern.tokens[i].c]

\* Byte order of file names.
RECURSIVE NameLess(_, _)
NameLess(a, b) ==
    IF b = NoText THEN FALSE
    ELSE IF a = NoText THEN TRUE
    ELSE IF Head(a) = Head(b) THEN NameLess(Tail(a), Tail(b))
    ELSE Ascii[Head(a)] < Ascii[Head(b)]

\* glob's is_dir: metadata succeeds and names a directory.
IsDir(cs) == MetadataOf(cs) = "Dir"

\* The entries of a directory, as read_dir gives their paths.
Children(cs) == {p \in DOMAIN fs : Len(p) = Len(cs) + 1 /\ SubSeq(p, 1, Len(cs)) = cs}

\* fill_todo's sort: by file name, descending (the todo list is popped from its end).
\* (SortAscending: the sort the other way round.)
RECURSIVE SortAscending(_)
SortAscending(ps) ==
    IF ps = {} THEN <<>>
    ELSE LET low == CHOOSE p \in ps : \A q \in ps \ {p} : NameLess(p[Len(p)], q[Len(q)])
         IN <<low>> \o SortAscending(ps \ {low})

RECURSIVE SortDescending(_)
SortDescending(ps) ==
    IF ps = {} THEN <<>>
    ELSE LET top == CHOOSE p \in ps : \A q \in ps \ {p} : NameLess(q[Len(q)], p[Len(p)])
         IN <<top>> \o SortDescending(ps \ {top})

\* A todo entry: a path and the index of the pattern to match it against, or (checked)
\* a path that fill_todo has matched already (idx !0 in the code), or an error.
TodoOk(cs, idx)  == [ok |-> TRUE, checked |-> FALSE, path |-> cs, idx |-> idx]
TodoChecked(cs)  == [ok |-> TRUE, checked |-> TRUE, path |-> cs, idx |-> Len(cs)]
TodoErr(cs)      == [ok |-> FALSE, checked |-> FALSE, path |-> cs, idx |-> Len(cs)]

\* glob's fill_todo.  Paths are component paths inside the engine.  (The "." and
\* ".." entries it adds for a pattern that starts with a literal dot never arise:
\* an escaped name matches them only when it is "." or ".." itself.)
RECURSIVE fill_todo(_, _, _, _)
fill_todo(todo, patterns, idx, path) ==
    LET pattern == patterns[idx]
        add(next_path) ==
            IF idx = Len(patterns)
            THEN Append(todo, TodoChecked(next_path))
            ELSE fill_todo(todo, patterns, idx + 1, next_path)
    IN IF PatternIsStr(pattern)
       THEN LET s == PatternStr(pattern)
                special == s \in {<<".">>, <<".", ".">>}
                next_path == Append(path, s)
            IN IF (special /\ IsDir(path))
                  \/ (~special /\ MetaIsOk(MetadataOf(next_path)))
               THEN add(next_path)
               ELSE todo
       ELSE IF IsDir(path)
       THEN (IF fs[path] = "noread"
             THEN Append(todo, TodoErr(path))
             ELSE LET children == SortDescending(Children(path))
                  IN todo \o [i \in 1..Len(children) |-> TodoOk(children[i], idx)])
       ELSE todo

NoItem == [some |-> FALSE, ok |-> FALSE, path |-> <<>>, todo |-> <<>>]
Item(ok, cs, todo) == [some |-> TRUE, ok |-> ok, path |-> cs, todo |-> todo]

\* The last of the consecutive recursive patterns starting at idx.
LastRecursive(patterns, idx) ==
    CHOOSE n \in idx..Len(patterns) :
        /\ \A k \in idx..n : patterns[k].is_recursive
        /\ (n = Len(patterns) \/ ~patterns[n + 1].is_recursive)

\* <glob::Paths as Iterator>::next: the next result and the todo list left.
RECURSIVE PathsNext(_, _, _)
PathsNext(todo, patterns, require_dir) ==
    IF todo = <<>> THEN NoItem
    ELSE LET top == todo[Len(todo)]
             rest == SubSeq(todo, 1, Len(todo) - 1)
             path == top.path
         IN
         IF ~top.ok THEN Item(FALSE, path, rest)
         ELSE IF top.checked
         THEN (IF require_dir /\ ~IsDir(path)
               THEN PathsNext(rest, patterns, require_dir)
               ELSE Item(TRUE, path, rest))
         ELSE LET recursive == patterns[top.idx].is_recursive
                  next == IF recursive THEN LastRecursive(patterns, top.idx) ELSE top.idx
                  descend == recursive /\ IsDir(path)
                  todo1 == IF descend THEN fill_todo(rest, patterns, next, path) ELSE rest
                  idx == IF recursive THEN next + 1 ELSE top.idx
                  name == path[Len(path)]
              IN
              IF recursive /\ next = Len(patterns)
              THEN (IF descend THEN Item(TRUE, path, todo1)
                    ELSE PathsNext(rest, patterns, require_dir))
              ELSE IF path = <<>> \/ ~IsUtf8(name) \/ ~Matches(patterns[idx], name)
              THEN PathsNext(todo1, patterns, require_dir)
              ELSE IF idx = Len(patterns)
              THEN (IF ~require_dir \/ IsDir(path)
                    THEN Item(TRUE, path, todo1)
                    ELSE PathsNext(todo1, patterns, require_dir))
              ELSE PathsNext(fill_todo(todo1, patterns, idx + 1, path), patterns, require_dir)

\* str::split_terminator on "/".
RECURSIVE SplitTerminator(_)
SplitTerminator(s) ==
    IF s = NoText THEN <<>>
    ELSE LET sl == Find(s, "/")
         IN IF sl = 0 THEN <<s>>
            ELSE <<SubText(s, 1, sl - 1)>> \o SplitTerminator(SubText(s, sl + 1, Len(s)))

\* glob::glob on an absolute pattern: the compiled iterator (its first todo list is
\* filled from the root on the first call of next), or a pattern error.
Glob(pattern) ==
    LET parts == SplitTerminator(SubText(pattern, 2, Len(pattern)))
        dir_patterns == [i \in 1..Len(parts) |-> PatternNew(parts[i])]
    IN [ok |-> \A i \in 1..Len(parts) : dir_patterns[i].ok,
        patterns |-> dir_patterns,
        require_dir |-> pattern[Len(pattern)] = "/",
        todo |-> IF parts # <<>> /\ \A i \in 1..Len(parts) : dir_patterns[i].ok
                 THEN fill_todo(<<>>, dir_patterns, 1, <<>>)
                 ELSE <<>>]

\* Every result of the iterator, in order.
RECURSIVE PathsAll(_, _, _)
PathsAll(todo, patterns, require_dir) ==
    LET it == PathsNext(todo, patterns, require_dir)
    IN IF ~it.some THEN <<>>
       ELSE <<[ok |-> it.ok, path |-> it.path]>> \o PathsAll(it.todo, patterns, require_dir)

-----------------------------------------------------------------------------
(* The path locator *)

IncludeText == <<"i", "n", "c", "l", "u", "d", "e">>

\* NATIVE_LIBRARY_FILENAME, as built for Linux and the BSDs.
NATIVE_LIBRARY_FILENAME == <<"l", "i", "b", "j", "v", "m", ".", "s", "o">>

Panic == Err("Panic", "", NoText)

\* Result<Vec<PathBuf>, GlobError>::collect over once(base).chain(glob results).
\* (Collect_without_base: the glob results alone.)
Collect_without_base(base, items) ==
    IF \E i \in 1..Len(items) : ~items[i].ok
    THEN LET i == CHOOSE i \in 1..Len(items) :
                      ~items[i].ok /\ \A k \in 1..(i - 1) : items[k].ok
         IN Err("GlobError", "", PathText(items[i].path))
    ELSE OkPaths([i \in 1..Len(items) |-> PathText(items[i].path)])

Collect(base, items) ==
    IF \E i \in 1..Len(items) : ~items[i].ok
    THEN LET i == CHOOSE i \in 1..Len(items) :
                      ~items[i].ok /\ \A k \in 1..(i - 1) : items[k].ok
         IN Err("GlobError", "", PathText(items[i].path))
    ELSE OkPaths(<<base>> \o [i \in 1..Len(items) |-> PathText(items[i].path)])

\* JavaHome::include
include ==
    LET base == Join(home, IncludeText)
        meta == Metadata(base)
    IN IF meta = "NotFound" THEN Outcome(OkNone, <<"metadata">>)
       ELSE IF ~MetaIsOk(meta) THEN Outcome(Err("IoError", meta, NoText), <<"metadata">>)
       ELSE IF meta = "Dir"
       THEN (IF ~IsUtf8(base)
             THEN Outcome(Err("PathNotUTF8", "", base), <<"metadata">>)
             ELSE LET g == Glob(Escape(base) \o <<"/", "*", "*", "/", "*", "/">>)
                  IN IF ~g.ok THEN Outcome(Panic, <<"metadata">>)
                     ELSE Outcome(Collect(base, PathsAll(g.todo, g.patterns, g.require_dir)),
                                  <<"metadata", "glob">>))
       ELSE Outcome(Err("BadJavaHomePath", "", home), <<"metadata">>)

\* The first result of glob::glob(pattern).unwrap().
First(pattern) ==
    LET g == Glob(pattern)
    IN IF ~g.ok THEN [ok |-> FALSE, it |-> NoItem]
       ELSE [ok |-> TRUE, it |-> PathsNext(g.todo, g.patterns, g.require_dir)]

\* JavaHome::native_library
native_library ==
    IF ~IsUtf8(home) THEN Outcome(Err("PathNotUTF8", "", home), <<>>)
    ELSE LET f == First(Escape(home) \o <<"/", "*", "*", "/">> \o NATIVE_LIBRARY_FILENAME)
         IN IF ~f.ok THEN Outcome(Panic, <<>>)
            ELSE IF ~f.it.some THEN Outcome(Err("NoNativeLibrary", "", NoText), <<"glob">>)
            ELSE IF ~f.it.ok THEN Outcome(Err("GlobError", "", PathText(f.it.path)), <<"glob">>)
            ELSE Outcome(OkPath(PathText(f.it.path)), <<"glob">>)

\* .next().transpose().map_err(Error::GlobError)
\* (Transpose_swallow: an error of the first result dropped, as by Result::ok.)
Transpose_swallow(f) ==
    IF ~f.ok THEN Outcome(Panic, <<>>)
    ELSE IF ~f.it.some \/ ~f.it.ok THEN Outcome(OkNone, <<"glob">>)
    ELSE Outcome(OkPath(PathText(f.it.path)), <<"glob">>)

Transpose(f) ==
    IF ~f.ok THEN Outcome(Panic, <<>>)
    ELSE IF ~f.it.some THEN Outcome(OkNone, <<"glob">>)
    ELSE IF ~f.it.ok THEN Outcome(Err("GlobError", "", PathText(f.it.path)), <<"glob">>)
    ELSE Outcome(OkPath(PathText(f.it.path)), <<"glob">>)

\* JavaHome::find_file
find_file(file) ==
    IF ~IsUtf8(home) THEN Outcome(Err("PathNotUTF8", "", home), <<>>)
    ELSE Transpose(First(Escape(home) \o <<"/", "*", "*", "/">> \o Escape(file)))

\* JavaHome::find_folder
find_folder(folder) ==
    IF ~IsUtf8(home) THEN Outcome(Err("PathNotUTF8", "", home), <<>>)
    ELSE Transpose(First(Escape(home) \o <<"/", "*", "*", "/">> \o Escape(folder) \o Slash))

-----------------------------------------------------------------------------
(* The inputs *)

P == <<"p">>
Jdk == <<"j", "d", "k">>

\* The JAVA_HOME value the resolver is run with when it is set and non-empty.
EnvHome == <<"/", "p", "/", "j", "d", "k">>

EnvValues == {Unset, SetTo(NoText), SetTo(EnvHome)}

Root == <<>> :> "dir"

\* The filesystems the resolver is run on: every state of /p and /p/jdk.
ResolverFs ==
    {Root} \cup {Root @@ (<<P>> :> k) : k \in {"dir", "file", "noread"}}
           \cup {Root @@ (<<P>> :> "dir") @@ (<<P, Jdk>> :> k) : k \in {"dir", "file", "noread"}}

\* The lines `java -XshowSettings:properties -version` may print.
LineProperty   == <<" ", " ", "j", "a", "v", "a", ".", "h", "o", "m", "e", " ", "=", " ", "/", "j", "1", "7">>
LineOther      == <<"x", "=", "1">>
LineNoEquals   == <<"j", "a", "v", "a", ".", "h", "o", "m", "e">>
LineEqualsFirst == <<"a", "=", "j", "a", "v", "a", ".", "h", "o", "m", "e">>
LineBlankValue == <<"j", "a", "v", "a", ".", "h", "o", "m", "e", "=", " ", "\t">>
LineTwoEquals  == <<"j", "a", "v", "a", ".", "h", "o", "m", "e", "=", "/", "a", "=", "b", "\r">>
LineBadByte    == <<"j", "a", "v", "a", "<FF>", "h", "o", "m", "e", "=", "/", "x">>

CandidateLines ==
    {LineProperty, LineOther, LineNoEquals, LineEqualsFirst, LineBlankValue, LineTwoEquals,
     LineBadByte}

LineSeqs(n) == UNION {[1..k -> CandidateLines] : k \in 0..n}

\* The bytes of a stream that prints the lines, each ended by a newline.
Stream(lines) == Concat([i \in 1..Len(lines) |-> lines[i] \o <<"\n">>])

Launched(out, err) == [launch |-> "ok", stdout |-> Stream(out), stderr |-> Stream(err)]
NotLaunched(kind) == [launch |-> kind, stdout |-> NoText, stderr |-> NoText]

\* The executables the resolver is run with: one that cannot be launched, or one
\* that prints at most MaxLines lines over its two streams.
Procs ==
    {NotLaunched(k) : k \in {"NotFound", "PermissionDenied"}}
    \cup UNION {{Launched(out, err) : err \in LineSeqs(MaxLines - Len(out))} :
                   out \in LineSeqs(MaxLines)}

\* Homes the locator is run on: a plain one, one with glob metacharacters, and one
\* that is not UTF-8.
HomePlain == <<"/", "j", "d", "k">>
HomeMeta  == <<"/", "j", "[", "1", "]">>
HomeBad   == <<"/", "j", "<FF>">>
Homes == {HomePlain, HomeMeta, HomeBad}

Temp == <<"[", "t", "e", "m", "p", "]">>
TName == <<"t">>
Win32 == <<"w", "i", "n", "3", "2">>
Linux == <<"l", "i", "n", "u", "x">>

\* The names an entry at each depth beneath the home may have.
LevelNames(d) ==
    IF d = 1 THEN {IncludeText, NATIVE_LIBRARY_FILENAME, Temp, TName}
    ELSE IF d = 2 THEN {Win32, Linux, NATIVE_LIBRARY_FILENAME, Temp}
    ELSE {NATIVE_LIBRARY_FILENAME, Temp}

\* The kinds an entry of each name may have.
KindsOf(name) ==
    IF name = IncludeText THEN {"dir", "file", "noread"}
    ELSE IF name = NATIVE_LIBRARY_FILENAME THEN {"file", "noread"}
    ELSE IF name = Temp THEN {"dir", "file", "noread"}
    ELSE IF name \in {Linux, TName} THEN {"dir"}
    ELSE {"dir", "noread"}

\* A tree is [relative component path -> kind]; an entry lies in a "dir".
EmptyTree == [p \in {} |-> "dir"]

Grow(t) ==
    {t @@ (Append(parent, name) :> k) :
        parent \in {<<>>} \cup {q \in DOMAIN t : t[q] = "dir"},
        name \in LevelNames(1) \cup LevelNames(2) \cup LevelNames(3),
        k \in {"dir", "file", "noread"}}

GrowOk(t) ==
    {u \in Grow(t) : /\ Cardinality(DOMAIN u) = Cardinality(DOMAIN t) + 1
                     /\ \A q \in DOMAIN u : /\ q[Len(q)] \in LevelNames(Len(q))
                                            /\ u[q] \in KindsOf(q[Len(q)])}

RECURSIVE TreesUpTo(_)
TreesUpTo(n) ==
    IF n = 0 THEN {EmptyTree}
    ELSE LET prev == TreesUpTo(n - 1)
         IN prev \cup UNION {GrowOk(t) : t \in prev}

\* The filesystem holding the home (of the given kind) with tree t beneath it, and
\* beside the home /j1, which the unescaped text of HomeMeta would match.
Decoy == <<"j", "1">>

LocatorFsOf(h, kind, t) ==
    LET hc == Components(h)
    IN Root @@ (hc :> kind) @@ [q \in {hc \o r : r \in DOMAIN t} |-> t[SubSeq(q, Len(hc) + 1, Len(q))]]
            @@ (<<Decoy>> :> "dir") @@ (<<Decoy, Temp>> :> "dir")
            @@ (<<Decoy, NATIVE_LIBRARY_FILENAME>> :> "file")

LocatorFs(h) ==
    {Root} \cup {Root @@ (Components(h) :> k) : k \in {"file", "noread"}}
           \cup {LocatorFsOf(h, "dir", t) :
                     t \in TreesUpTo(IF h = HomeBad THEN 1 ELSE MaxEntries)}

\* The names find_file and find_folder are asked for: single path components.
SearchNames == {Temp, TName, NATIVE_LIBRARY_FILENAME}

-----------------------------------------------------------------------------
(* The specifications *)

Idle ==
    /\ op = "idle"
    /\ arg = NoText
    /\ result = NoResult
    /\ calls = <<>>

InitResolve ==
    /\ env \in EnvValues
    /\ fs \in ResolverFs
    /\ proc \in Procs
    /\ home = NoText
    /\ Idle

InitLocate ==
    /\ env = Unset
    /\ proc = NotLaunched("NotFound")
    /\ home \in Homes
    /\ fs \in LocatorFs(home)
    /\ Idle

\* One call of an operation.  The operations keep no state between calls, so a
\* behaviour makes one call on the inputs Init chose.
Call(name, a, outcome) ==
    /\ op = "idle"
    /\ op' = name
    /\ arg' = a
    /\ result' = outcome.ret
    /\ calls' = outcome.calls
    /\ UNCHANGED <<env, fs, proc, home>>

FindHome == Call("find_home", NoText, find_home)

FindValidHome == Call("find_valid_home", NoText, find_valid_home)

FindActiveHome == Call("find_active_home", NoText, find_active_home)

Include == Call("include", NoText, include)

NativeLibrary == Call("native_library", NoText, native_library)

FindFile == \E file \in SearchNames : Call("find_file", file, find_file(file))

FindFolder == \E folder \in SearchNames : Call("find_folder", folder, find_folder(folder))

NextResolve == FindHome \/ FindValidHome \/ FindActiveHome

NextLocate == Include \/ NativeLibrary \/ FindFile \/ FindFolder

Spec == InitResolve /\ [][NextResolve]_vars

SpecLocate == InitLocate /\ [][NextLocate]_vars

-----------------------------------------------------------------------------
(* Properties of the home resolver, checked under Spec *)

Range(seq) == {seq[i] : i \in 1..Len(seq)}

EnvGiven == env.set /\ env.val # NoText

\* C1: for a set, non-empty JAVA_HOME, find_home returns exactly that value, with no
\* metadata query and without launching java; for an unset or empty JAVA_HOME its
\* outcome is that of find_active_home.
C1_FindHome ==
    op = "find_home" =>
        IF EnvGiven
        THEN /\ result = OkPath(env.val)
             /\ "metadata" \notin Range(calls)
             /\ "spawn" \notin Range(calls)
        ELSE /\ result = find_active_home.ret
             /\ calls = <<"var_os">> \o find_active_home.calls

\* find_home has returned a JAVA_HOME value that names nothing in the filesystem.
C1_Witness ==
    /\ op = "find_home"
    /\ EnvGiven
    /\ Metadata(env.val) = "NotFound"
    /\ result = OkPath(env.val)

\* C2: when a non-empty JAVA_HOME names nothing, or an entry that is no directory,
\* the outcome of find_valid_home is that of find_active_home; when it names a
\* directory, find_valid_home returns it and does not launch java.
C2_FindValidHome ==
    (op = "find_valid_home" /\ EnvGiven) =>
        /\ Metadata(env.val) \in {"NotFound", "File"} =>
              /\ result = find_active_home.ret
              /\ calls = <<"var_os", "metadata">> \o find_active_home.calls
        /\ Metadata(env.val) = "Dir" =>
              /\ result = OkPath(env.val)
              /\ "spawn" \notin Range(calls)

\* JAVA_HOME names a regular file and find_valid_home has returned the active home.
C2_Witness ==
    /\ op = "find_valid_home"
    /\ EnvGiven
    /\ Metadata(env.val) = "File"
    /\ result.tag = "Ok"
    /\ result.path # env.val
    /\ "spawn" \in Range(calls)

\* C3: when the metadata query on a non-empty JAVA_HOME fails with anything but
\* "not found", find_valid_home returns Error::IoError at once: no fallback, java
\* is never launched, no home is returned.
C3_IoErrorBubbles ==
    (op = "find_valid_home" /\ EnvGiven
        /\ Metadata(env.val) \notin {"NotFound", "File", "Dir"}) =>
        /\ result = Err("IoError", Metadata(env.val), NoText)
        /\ calls = <<"var_os", "metadata">>

\* The metadata query was denied and find_valid_home has failed, although the
\* active installation would have been found.
C3_Witness ==
    /\ op = "find_valid_home"
    /\ EnvGiven
    /\ Metadata(env.val) = "PermissionDenied"
    /\ find_active_home.ret.tag = "Ok"
    /\ result.err = "IoError"

\* The lines java printed, stdout's first: each candidate line, decoded, without
\* its line ending.
PrintedLines == Lines(FromUtf8Lossy(proc.stdout)) \o Lines(FromUtf8Lossy(proc.stderr))

HasProperty(line) == Contains(line, JavaHomeText)

\* The first of the lines that contain java.home, <<>> when none does (no line
\* that contains it is empty).
FirstPropertyLine(lines) ==
    LET hits == {i \in 1..Len(lines) : HasProperty(lines[i])}
    IN IF hits = {} THEN NoText
       ELSE lines[CHOOSE i \in hits : \A k \in hits : i <= k]

\* C4: a launched java yields the text after the first "=" of the first line (stdout
\* then stderr) that contains java.home, trimmed; NoJavaHomeProperty exactly when
\* there is no such line or that line has no "="; a failed launch yields
\* JavaExecution.
C4_FindActiveHome ==
    op = "find_active_home" =>
        LET first == FirstPropertyLine(PrintedLines)
        IN IF proc.launch # "ok"
           THEN result = Err("JavaExecution", proc.launch, NoText)
           ELSE IF first = NoText \/ "=" \notin Range(first)
           THEN result = Err("NoJavaHomeProperty", "", NoText)
           ELSE \E i \in 1..Len(first) :
                   /\ first[i] = "="
                   /\ \A k \in 1..(i - 1) : first[k] # "="
                   /\ result = OkPath(Trim(SubText(first, i + 1, Len(first))))

\* The first java.home line has no "=", a later one has, and the call has failed.
C4_Witness ==
    /\ op = "find_active_home"
    /\ proc.launch = "ok"
    /\ LET lines == PrintedLines
           first == FirstPropertyLine(lines)
       IN /\ first # NoText
          /\ "=" \notin Range(first)
          /\ \E i \in 1..Len(lines) : HasProperty(lines[i]) /\ "=" \in Range(lines[i])
    /\ result = Err("NoJavaHomeProperty", "", NoText)

\* C10: when the first java.home line has an "=", find_active_home succeeds whatever
\* follows it; blank text after the "=" gives a home whose path is empty.
C10_BlankValue ==
    (op = "find_active_home" /\ proc.launch = "ok") =>
        LET first == FirstPropertyLine(PrintedLines)
        IN "=" \in Range(first) =>
              /\ result.tag = "Ok"
              /\ (\A i \in (Find(first, "=") + 1)..Len(first) : IsWhitespace(first[i]))
                    => result = OkPath(NoText)

\* The first java.home line has only blanks after its "=" and find_active_home has
\* returned the empty path.
C10_Witness ==
    /\ op = "find_active_home"
    /\ FirstPropertyLine(PrintedLines) = LineBlankValue
    /\ result = OkPath(NoText)

-----------------------------------------------------------------------------
(* Properties of the path locator, checked under SpecLocate *)

HomeC == Components(home)

\* The home path is text the search engine can take: it holds no invalid byte.
Representable == "<FF>" \notin Range(home)

\* Every directory above p can be listed and searched.
Reachable(p) == \A k \in 0..(Len(p) - 1) : SubSeq(p, 1, k) \in DOMAIN fs /\ fs[SubSeq(p, 1, k)] = "dir"

Under(c) == {p \in DOMAIN fs : Len(p) > Len(c) /\ SubSeq(p, 1, Len(c)) = c /\ Reachable(p)}

\* The directories at or beneath c that cannot be listed.
UnreadableAt(c) == {p \in Under(c) \cup ({c} \cap DOMAIN fs) : fs[p] = "noread" /\ Reachable(p)}

\* The order of a depth-first walk that lists each directory by name.
RECURSIVE PathLess(_, _)
PathLess(p, q) ==
    IF q = <<>> THEN FALSE
    ELSE IF p = <<>> THEN TRUE
    ELSE IF Head(p) = Head(q) THEN PathLess(Tail(p), Tail(q))
    ELSE NameLess(Head(p), Head(q))

Earliest(S) == CHOOSE p \in S : \A q \in S \ {p} : PathLess(p, q)

\* The entries beneath the home that a search for the name may return.
Named(name, dirs_only) ==
    {p \in Under(HomeC) : p[Len(p)] = name /\ (dirs_only => fs[p] # "file")}

SearchOps == {"native_library", "find_file", "find_folder"}

Sought == IF op = "native_library" THEN NATIVE_LIBRARY_FILENAME ELSE arg

Candidates == Named(Sought, op = "find_folder")

\* The unlistable directories whose error the walk raises: a directory that is
\* itself a match is returned first.
Failing == UnreadableAt(HomeC) \ Candidates

\* C5, as claimed: a home that is not UTF-8 makes all four operations fail with
\* PathNotUTF8 before any filesystem access.
C5_AsClaimed ==
    (op \in SearchOps \cup {"include"} /\ ~Representable) =>
        /\ result = Err("PathNotUTF8", "", IF op = "include" THEN Join(home, IncludeText) ELSE home)
        /\ calls = <<>>

\* C5, amended: a home that is not UTF-8 makes native_library, find_file and
\* find_folder fail with PathNotUTF8 before any filesystem access; include first
\* queries the metadata of home/include and fails with PathNotUTF8, before any
\* enumeration, exactly when that is a directory, and otherwise returns what the
\* metadata tells: not present, IoError or BadJavaHomePath.
C5_NotUtf8 ==
    ~Representable =>
        /\ op \in SearchOps => (result = Err("PathNotUTF8", "", home) /\ calls = <<>>)
        /\ op = "include" =>
              LET base == Join(home, IncludeText)
                  meta == Metadata(base)
              IN /\ calls = <<"metadata">>
                 /\ meta = "Dir" <=> result = Err("PathNotUTF8", "", base)
                 /\ meta = "NotFound" <=> result = OkNone
                 /\ meta = "File" <=> result = Err("BadJavaHomePath", "", home)
                 /\ meta \notin {"Dir", "NotFound", "File"} <=> result = Err("IoError", meta, NoText)

\* include has failed with PathNotUTF8 after its metadata query.
C5_Witness ==
    /\ op = "include"
    /\ ~Representable
    /\ result.err = "PathNotUTF8"
    /\ calls = <<"metadata">>

IncludeC == Append(HomeC, IncludeText)

\* The directories beneath home/include, at any depth.
IncludeDirs == {p \in Under(IncludeC) : fs[p] # "file"}

\* C6: include returns "not present" when home/include does not exist, fails with
\* BadJavaHomePath when it is no directory, and, when it is a directory of a UTF-8
\* home whose directories can all be listed, returns include and every directory
\* beneath it, each once: {include, include/win32, include/linux} when those are
\* win32 and linux.
C6_Include ==
    op = "include" =>
        LET base == Join(home, IncludeText)
            meta == Metadata(base)
        IN /\ meta = "NotFound" => result = OkNone
           /\ meta = "File" => result = Err("BadJavaHomePath", "", home)
           /\ (meta = "Dir" /\ Representable /\ UnreadableAt(IncludeC) = {}) =>
                 /\ result.tag = "Ok" /\ result.some
                 /\ Range(result.paths) = {base} \cup {PathText(p) : p \in IncludeDirs}
                 /\ Len(result.paths) = 1 + Cardinality(IncludeDirs)
                 /\ IncludeDirs = {Append(IncludeC, Win32), Append(IncludeC, Linux)} =>
                       Range(result.paths) = {base, Join(base, Win32), Join(base, Linux)}

\* include has returned include, include/win32 and include/linux.
C6_Witness ==
    /\ op = "include"
    /\ result.tag = "Ok"
    /\ Len(result.paths) = 3
    /\ Range(result.paths) = {Join(home, IncludeText), Join(Join(home, IncludeText), Win32),
                              Join(Join(home, IncludeText), Linux)}

\* C7: on a UTF-8 home whose directories can all be listed, native_library fails
\* with NoNativeLibrary when no entry beneath the home has the native library's
\* name, and otherwise returns the first such entry of the walk, at whatever depth.
C7_NativeLibrary ==
    (op = "native_library" /\ Representable /\ UnreadableAt(HomeC) = {}) =>
        IF Candidates = {}
        THEN result = Err("NoNativeLibrary", "", NoText)
        ELSE result = OkPath(PathText(Earliest(Candidates)))

\* Two libraries lie beneath the home, one directly in it, and native_library has
\* returned the deeper one, which the walk meets first.
C7_Witness ==
    /\ op = "native_library"
    /\ Cardinality(Candidates) = 2
    /\ Append(HomeC, NATIVE_LIBRARY_FILENAME) \in Candidates
    /\ result.tag = "Ok"
    /\ Len(Components(result.path)) = Len(HomeC) + 2

\* C8: find_folder matches the home and the name literally: a match is a directory
\* beneath the home whose last component is the name, character for character (never
\* a regular file); on a home whose directories can all be listed it returns the
\* first such directory, and Ok(None) when there is none.
C8_FindFolderLiteral ==
    (op = "find_folder" /\ Representable) =>
        /\ (result.tag = "Ok" /\ result.some) =>
              /\ Components(result.path) \in Under(HomeC)
              /\ Components(result.path)[Len(Components(result.path))] = arg
              /\ fs[Components(result.path)] # "file"
        /\ UnreadableAt(HomeC) = {} =>
              IF Candidates = {} THEN result = OkNone
              ELSE result = OkPath(PathText(Earliest(Candidates)))

\* Beneath a home with glob metacharacters, a search for [temp] has passed over a
\* regular file of that name and returned a directory named [temp].
C8_Witness ==
    /\ op = "find_folder"
    /\ arg = Temp
    /\ home = HomeMeta
    /\ \E p \in Under(HomeC) : /\ p[Len(p)] = Temp /\ fs[p] = "file"
                               /\ PathLess(p, Components(result.path))
    /\ result.tag = "Ok" /\ result.some
    /\ fs[Components(result.path)] = "dir"

\* C9: an enumeration error the walk raises is returned as GlobError: include fails
\* with it when any directory at or beneath home/include cannot be listed, and the
\* three searches fail with it when such a directory comes before every match; a
\* success never lies behind a skipped failure, and "not found" is never reported
\* over one.
C9_GlobErrorSurfaces ==
    Representable =>
        /\ (op = "include" /\ Metadata(Join(home, IncludeText)) = "Dir"
               /\ UnreadableAt(IncludeC) # {}) =>
              result = Err("GlobError", "", PathText(Earliest(UnreadableAt(IncludeC))))
        /\ (op \in SearchOps /\ Failing # {}
               /\ \A m \in Candidates : PathLess(Earliest(Failing), m)) =>
              result = Err("GlobError", "", PathText(Earliest(Failing)))
        /\ (op \in SearchOps /\ result.tag = "Ok" /\ result.some) =>
              \A d \in Failing : PathLess(Components(result.path), d)
        /\ (op \in SearchOps /\ (result = OkNone \/ result.err = "NoNativeLibrary")) =>
              UnreadableAt(HomeC) = {}

\* A native library lies beneath the home, yet native_library has failed with the
\* error of a directory the walk could not list before reaching it.
C9_Witness ==
    /\ op = "native_library"
    /\ Candidates # {}
    /\ result.err = "GlobError"

=============================================================================
